---- MODULE Spec2Model ----
(***************************************************************************)
(* Slot availability and booking-conflict model of the med-connect client. *)
(* Each client is one browser tab running the BookingModal component, its  *)
(* appointment store and its doctor store; all clients talk to one backend.*)
(***************************************************************************)
EXTENDS Integers, Sequences, FiniteSets, TLC

\* ------------------------------------------------------------------ bounds
MaxDate == 2            \* calendar days 0..MaxDate; day 0 is today
MaxBatches == 1         \* resolver runs in flight per client
MaxSubmits == 1         \* submits in flight per client
MaxAppointments == 2    \* appointments the backend holds
MaxUserSlots == 1       \* catalogue slots a user clicks on
MaxFailSlots == 1       \* catalogue slots whose check may fail
MaxFetches == 1         \* doctor-availability fetches in flight per client

\* --------------------------------------------------------------- constants
BUSINESS_HOURS ==
  <<"08:00", "09:00", "10:00", "11:00", "12:00", "13:00", "14:00", "15:00", "16:00">>

Slots == {BUSINESS_HOURS[i] : i \in 1..Len(BUSINESS_HOURS)}
Clients == {"c1"}                \* the browser tabs modelled in full
RemoteClient == "c2"             \* another tab, modelled by its Booking Writer only
Dates == 0..MaxDate
Today == 0
NoDate == -1
NoTime == "none"

Min(a, b) == IF a < b THEN a ELSE b
UserSlots == {BUSINESS_HOURS[i] : i \in 1..Min(MaxUserSlots, Len(BUSINESS_HOURS))}
FailSlots == {BUSINESS_HOURS[i] : i \in 1..Min(MaxFailSlots, Len(BUSINESS_HOURS))}

VARIABLES
  \* backend (Firestore behind the REST API)
  appts,                  \* appointment documents
  \* BookingModal component state, per client
  isOpen, currentStep, selectedDate, selectedTime,
  availableTimesForDate, bookedTimesForDate,
  isSubmitting, isCheckingAvailability,
  \* asynchronous flows of the component that are suspended on the network
  batches, submits, closeTimers,
  \* doctor data seen by the component
  doctorAvailability, storeAvailability, availabilityFetches,
  \* appointment store (zustand), per client
  appointments, loading, error,
  \* browser
  userId, page, lastAlert,
  \* localStorage key userRole; the Login page's form and its pending timers
  userRole, loginForm, loginTimers, isLoggedIn,
  \* AppointmentList component: store calls suspended on the network, and the
  \* refreshing flag
  listOps, refreshing, cancelTracked,
  \* the doctors on the backend, the doctor store (zustand) and its actions
  \* suspended on the network
  backendDoctors, doctorStore, doctorOps,
  \* how the latest direct call of an appointment-store action came back
  storeResult,
  \* the wall clock, in hours
  now,
  \* how many resolver runs and submits a client may have in flight
  limits

backendVars == <<appts>>
uiVars == <<isOpen, currentStep, selectedDate, selectedTime,
            availableTimesForDate, bookedTimesForDate,
            isSubmitting, isCheckingAvailability>>
flowVars == <<batches, submits, closeTimers>>
doctorVars == <<doctorAvailability, storeAvailability, availabilityFetches>>
storeVars == <<appointments, loading, error>>
browserVars == <<userId, page, lastAlert>>
loginVars == <<userRole, loginForm, loginTimers, isLoggedIn>>
listVars == <<listOps, refreshing, cancelTracked>>
\* what the booking modal neither reads nor writes
dirVars == <<backendDoctors, doctorStore, doctorOps>>
otherVars == <<loginVars, listVars, now, limits, dirVars, storeResult>>
vars == <<backendVars, uiVars, flowVars, doctorVars, storeVars, browserVars, otherVars>>

\* ----------------------------------------------------------- pure helpers
IndexOf(t) == CHOOSE i \in 1..Len(BUSINESS_HOURS) : BUSINESS_HOURS[i] = t
HourOf(t) == 7 + IndexOf(t)

\* a browser whose local zone is not America/Panama but UTC+12
AbroadClient == "c3"

\* UTC offset of the browser's local zone, in hours (America/Panama is -5)
LocalOffset(c) == IF c = AbroadClient THEN 12 ELSE -5

\* createDateTimeString: local wall-clock (date, slot) converted to a UTC instant,
\* counted in hours since local midnight of day 0 in UTC+0
createDateTimeString(c, date, timeSlot) == date * 24 + HourOf(timeSlot) - LocalOffset(c)

SeqToSet(s) == {s[i] : i \in 1..Len(s)}
NoDup(s) == \A i, j \in 1..Len(s) : i # j => s[i] # s[j]

RECURSIVE FilterSlots(_, _, _)
\* the entries of sequence s whose result in res equals want, in order
FilterSlots(s, res, want) ==
  IF s = <<>> THEN <<>>
  ELSE (IF res[Head(s)] = want THEN <<Head(s)>> ELSE <<>>) \o FilterSlots(Tail(s), res, want)

RemoveAt(s, i) == SubSeq(s, 1, i - 1) \o SubSeq(s, i + 1, Len(s))

\* checkSlotAvailable as it would be if a failed request counted as available
checkSlotAvailable_FailOpen(outcome) == outcome # "false"

\* checkSlotAvailable as it would be if it returned whatever the body holds
\* under isAvailable, read as a truth value only when it is false
checkSlotAvailable_Loose(outcome) == outcome \notin {"false", "error", "status"}

\* checkSlotAvailable: the HTTP outcome of one availability request turned into
\* the boolean the callers see
checkSlotAvailable(outcome) == outcome = "true"

\* GET /appointments/available/:doctorId/:dateTime
BackendIsAvailable(dateTime) ==
  ~ \E a \in appts : a.dateTime = dateTime /\ a.status # "cancelled"

BackendOutcome(dateTime) == IF BackendIsAvailable(dateTime) THEN "true" ELSE "false"

\* availabilities as computed at the top of getAvailableTimesForDate and
\* checkDateHasAvailability: the doctor object's list, else the store's
Availabilities(c) ==
  IF doctorAvailability[c] # {} THEN doctorAvailability[c] ELSE storeAvailability[c]

\* the day-level gate as it would be if it let every day through
IsDayAvailable_Always(avail, date) == TRUE

IsDayAvailable(avail, date) == date \in avail

\* the day-level availability lists the backend hands out: no day, or every day
\* of the calendar
AvailabilityLists == {{}, Dates}

\* CalendarDay.isPast: isBefore(date, tomorrow)
IsPast(date) == date < Today + 1

\* ------------------------------------------------------------ initial state
PendingResults == [s \in Slots |-> "pending"]

\* the doctors the backend starts with: the first comes with its availability
\* in the list of doctors, the second has to be asked for it
Specialties == {"Cardiology", "Dermatology"}
InitialDoctors ==
  {[id |-> 1, specialty |-> "Cardiology", included |-> TRUE, availability |-> {Today + 1}],
   [id |-> 2, specialty |-> "Dermatology", included |-> FALSE, availability |-> {Today}]}

\* defaultState of the doctor store; doctorsWithAvailability maps the ids it
\* has an entry for to the days of their slots
DefaultDoctorState ==
  [doctors |-> <<>>, filteredDoctors |-> <<>>, selectedSpecialties |-> {},
   selectedAvailability |-> "any", loading |-> FALSE, error |-> "null",
   doctorsWithAvailability |-> [d \in {} |-> {}]]

\* the Login component's initial state: email '' (not valid), isAdmin false
EmptyLoginForm == [isValid |-> FALSE, isAdmin |-> FALSE, isSubmitting |-> FALSE]

\* the instant at which calendar day date begins in the browsers' zone
LocalMidnight(date) == date * 24 - LocalOffset(RemoteClient)

InitState ==
  /\ appts = {}
  /\ isOpen = [c \in Clients |-> FALSE]
  /\ currentStep = [c \in Clients |-> "calendar"]
  /\ selectedDate = [c \in Clients |-> NoDate]
  /\ selectedTime = [c \in Clients |-> NoTime]
  /\ availableTimesForDate = [c \in Clients |-> <<>>]
  /\ bookedTimesForDate = [c \in Clients |-> <<>>]
  /\ isSubmitting = [c \in Clients |-> FALSE]
  /\ isCheckingAvailability = [c \in Clients |-> FALSE]
  /\ batches = [c \in Clients |-> <<>>]
  /\ submits = [c \in Clients |-> <<>>]
  /\ closeTimers = [c \in Clients |-> 0]
  /\ \E D \in AvailabilityLists : doctorAvailability = [c \in Clients |-> D]
  /\ storeAvailability = [c \in Clients |-> {}]
  /\ availabilityFetches = [c \in Clients |-> 0]
  /\ appointments = [c \in Clients |-> <<>>]
  /\ loading = [c \in Clients |-> FALSE]
  /\ error = [c \in Clients |-> "null"]
  /\ userId \in [Clients -> BOOLEAN]
  /\ page = [c \in Clients |-> "doctors"]
  /\ lastAlert = [c \in Clients |-> "none"]
  /\ userRole = [c \in Clients |-> IF userId[c] THEN "user" ELSE "none"]
  /\ loginForm = [c \in Clients |-> EmptyLoginForm]
  /\ loginTimers = [c \in Clients |-> <<>>]
  /\ isLoggedIn = [c \in Clients |-> userId[c]]
  /\ listOps = [c \in Clients |-> <<>>]
  /\ refreshing = [c \in Clients |-> FALSE]
  /\ cancelTracked = [c \in Clients |-> {}]
  /\ backendDoctors = InitialDoctors
  /\ doctorStore = DefaultDoctorState
  /\ doctorOps = <<>>
  /\ storeResult = [c \in Clients |-> "none"]

Init ==
  /\ InitState
  /\ limits = [batches |-> MaxBatches, submits |-> MaxSubmits]
  /\ now = LocalMidnight(Today)

\* ------------------------------------------------- component state updates
\* React ignores a state update of a component instance that was unmounted:
\* an update made by a flow whose instance is gone (live = FALSE) changes nothing
SetIf(live, var, c, value) == IF live THEN [var EXCEPT ![c] = value] ELSE var

\* the setters as they would be if they added to the displayed list
SetTimes_Accumulate(displayed, slots) == displayed \o slots

\* setAvailableTimesForDate(slots), setBookedTimesForDate(slots): the new list
\* replaces the one displayed
SetTimes(displayed, slots) == slots

\* getAvailableTimesForDate, up to its first suspension.  avail is the list the
\* calling closure sees; live tells whether the calling instance is mounted.
ResolverStart(c, date, avail, live) ==
  IF ~ IsDayAvailable(avail, date)
  THEN /\ availableTimesForDate' =
            SetIf(live, availableTimesForDate, c, SetTimes(availableTimesForDate[c], <<>>))
       /\ bookedTimesForDate' =
            SetIf(live, bookedTimesForDate, c,
                  SetTimes(bookedTimesForDate[c], BUSINESS_HOURS))
       /\ UNCHANGED <<isCheckingAvailability, batches>>
  ELSE /\ Len(batches[c]) < limits.batches
       /\ isCheckingAvailability' = SetIf(live, isCheckingAvailability, c, TRUE)
       /\ batches' = [batches EXCEPT ![c] =
                        Append(@, [date |-> date, results |-> PendingResults, live |-> live])]
       /\ UNCHANGED <<availableTimesForDate, bookedTimesForDate>>

\* ------------------------------------------------------------------ actions
\* DoctorCard.openModal, then the component's mount effect
OpenModal(c) ==
  /\ page[c] = "doctors"
  /\ ~ isOpen[c]
  /\ isOpen' = [isOpen EXCEPT ![c] = TRUE]
  /\ IF doctorAvailability[c] = {}
     THEN /\ availabilityFetches[c] < MaxFetches
          /\ availabilityFetches' = [availabilityFetches EXCEPT ![c] = @ + 1]
          /\ UNCHANGED storeAvailability
     ELSE /\ storeAvailability' = [storeAvailability EXCEPT ![c] = doctorAvailability[c]]
          /\ UNCHANGED availabilityFetches
  /\ UNCHANGED <<backendVars, currentStep, selectedDate, selectedTime,
                 availableTimesForDate, bookedTimesForDate, isSubmitting,
                 isCheckingAvailability, flowVars, doctorAvailability, storeVars,
                 browserVars>>
  /\ UNCHANGED otherVars

\* fetchDoctorAvailabilities([doctor.id]) resumes: the fetched list, or the
\* empty list when the request failed, replaces the store's map
AvailabilityFetched(c, fetched) ==
  /\ page[c] = "doctors"
  /\ availabilityFetches[c] > 0
  /\ availabilityFetches' = [availabilityFetches EXCEPT ![c] = @ - 1]
  /\ storeAvailability' = [storeAvailability EXCEPT ![c] = fetched]
  /\ UNCHANGED <<backendVars, uiVars, flowVars, doctorAvailability, storeVars, browserVars>>
  /\ UNCHANGED otherVars

HandleDateSelect(c, date) ==
  /\ page[c] = "doctors" /\ isOpen[c] /\ currentStep[c] = "calendar"
  /\ ~ IsPast(date)
  /\ IsDayAvailable(Availabilities(c), date)      \* day.hasAvailability
  /\ selectedDate' = [selectedDate EXCEPT ![c] = date]
  /\ ResolverStart(c, date, Availabilities(c), TRUE)
  /\ currentStep' = [currentStep EXCEPT ![c] = "time"]
  /\ UNCHANGED <<backendVars, isOpen, selectedTime, isSubmitting, submits, closeTimers,
                 doctorVars, storeVars, browserVars>>
  /\ UNCHANGED otherVars

\* the slot buttons of the time step are rendered once the spinner is gone and
\* the available list is not empty; a button is disabled when its slot is booked
SlotButtonsShown(c) ==
  /\ page[c] = "doctors" /\ isOpen[c] /\ currentStep[c] = "time"
  /\ ~ isCheckingAvailability[c]
  /\ availableTimesForDate[c] # <<>>

HandleTimeSelect(c, time) ==
  /\ SlotButtonsShown(c)
  /\ time \notin SeqToSet(bookedTimesForDate[c])
  /\ selectedDate[c] # NoDate
  /\ selectedTime' = [selectedTime EXCEPT ![c] = time]
  /\ currentStep' = [currentStep EXCEPT ![c] = "form"]
  /\ UNCHANGED <<backendVars, isOpen, selectedDate, availableTimesForDate,
                 bookedTimesForDate, isSubmitting, isCheckingAvailability,
                 flowVars, doctorVars, storeVars, browserVars>>
  /\ UNCHANGED otherVars

\* the 'Continue to booking details' button of the time step
ContinueToDetails(c) ==
  /\ SlotButtonsShown(c)
  /\ selectedTime[c] # NoTime
  /\ currentStep' = [currentStep EXCEPT ![c] = "form"]
  /\ UNCHANGED <<backendVars, isOpen, selectedDate, selectedTime, availableTimesForDate,
                 bookedTimesForDate, isSubmitting, isCheckingAvailability,
                 flowVars, doctorVars, storeVars, browserVars>>
  /\ UNCHANGED otherVars

HandleBack(c) ==
  /\ page[c] = "doctors" /\ isOpen[c]
  /\ currentStep[c] \in {"time", "form"}
  /\ currentStep' = [currentStep EXCEPT ![c] = IF @ = "time" THEN "calendar" ELSE "time"]
  /\ UNCHANGED <<backendVars, isOpen, selectedDate, selectedTime, availableTimesForDate,
                 bookedTimesForDate, isSubmitting, isCheckingAvailability,
                 flowVars, doctorVars, storeVars, browserVars>>
  /\ UNCHANGED otherVars

Orphan(flows) == [i \in 1..Len(flows) |-> [flows[i] EXCEPT !.live = FALSE]]

\* onClose() makes DoctorCard stop rendering the modal: the component instance
\* is unmounted, the next one starts from the initial component state, and the
\* flows of the old instance that are suspended on the network go on without it
Unmount(c) ==
  /\ isOpen' = [isOpen EXCEPT ![c] = FALSE]
  /\ currentStep' = [currentStep EXCEPT ![c] = "calendar"]
  /\ selectedDate' = [selectedDate EXCEPT ![c] = NoDate]
  /\ selectedTime' = [selectedTime EXCEPT ![c] = NoTime]
  /\ availableTimesForDate' = [availableTimesForDate EXCEPT ![c] = <<>>]
  /\ bookedTimesForDate' = [bookedTimesForDate EXCEPT ![c] = <<>>]
  /\ isSubmitting' = [isSubmitting EXCEPT ![c] = FALSE]
  /\ isCheckingAvailability' = [isCheckingAvailability EXCEPT ![c] = FALSE]
  /\ batches' = [batches EXCEPT ![c] = Orphan(@)]
  /\ submits' = [submits EXCEPT ![c] = Orphan(@)]

HandleClose(c) ==
  /\ page[c] = "doctors" /\ isOpen[c]
  /\ Unmount(c)
  /\ UNCHANGED <<backendVars, closeTimers, doctorVars, storeVars, browserVars>>
  /\ UNCHANGED otherVars

\* the 2-second timer set by a successful submit calls handleClose
CloseTimerFires(c) ==
  /\ page[c] = "doctors"
  /\ closeTimers[c] > 0
  /\ closeTimers' = [closeTimers EXCEPT ![c] = @ - 1]
  /\ IF isOpen[c] THEN Unmount(c) ELSE UNCHANGED <<uiVars, batches, submits>>
  /\ UNCHANGED <<backendVars, doctorVars, storeVars, browserVars>>
  /\ UNCHANGED otherVars

\* the partition as it would be if booked slots stayed in the available list
Partition_AllAvailable(results) ==
  [available |-> BUSINESS_HOURS,
   booked |-> FilterSlots(BUSINESS_HOURS, results, "no")]

\* the partition as it would be with the two branches of the forEach swapped
Partition_Swapped(results) ==
  [available |-> FilterSlots(BUSINESS_HOURS, results, "no"),
   booked |-> FilterSlots(BUSINESS_HOURS, results, "yes")]

\* the partition built from the joined results of a batch
Partition(results) ==
  [available |-> FilterSlots(BUSINESS_HOURS, results, "yes"),
   booked |-> FilterSlots(BUSINESS_HOURS, results, "no")]

\* the partition set by the catch branch of getAvailableTimesForDate
FallbackPartition == [available |-> BUSINESS_HOURS, booked |-> <<>>]

\* what one request of a batch resolves to, stored until the batch is joined
Resolved(outcome) == IF checkSlotAvailable(outcome) THEN "yes" ELSE "no"

\* await Promise.all(availabilityChecks): resolved when every check has
AllSettled(results) == \A s \in Slots : results[s] # "pending"

\* Responses for the pending per-slot checks in DOMAIN resp of batch i arrive;
\* when none is pending any more Promise.all resolves and the run resumes.
ChecksReturn(c, i, resp) ==
  /\ page[c] = "doctors"
  /\ i \in 1..Len(batches[c])
  /\ LET b == batches[c][i]
         results == [s \in Slots |-> IF s \in DOMAIN resp THEN Resolved(resp[s])
                                                       ELSE b.results[s]]
         part == Partition(results)
     IN /\ DOMAIN resp # {}
        /\ \A s \in DOMAIN resp : b.results[s] = "pending"
        /\ IF ~ AllSettled(results)
           THEN /\ batches' = [batches EXCEPT ![c][i].results = results]
                /\ UNCHANGED <<availableTimesForDate, bookedTimesForDate,
                               isCheckingAvailability>>
           ELSE /\ batches' = [batches EXCEPT ![c] = RemoveAt(@, i)]
                /\ availableTimesForDate' =
                     SetIf(b.live, availableTimesForDate, c,
                           SetTimes(availableTimesForDate[c], part.available))
                /\ bookedTimesForDate' =
                     SetIf(b.live, bookedTimesForDate, c,
                           SetTimes(bookedTimesForDate[c], part.booked))
                /\ isCheckingAvailability' = SetIf(b.live, isCheckingAvailability, c, FALSE)
  /\ UNCHANGED <<backendVars, isOpen, currentStep, selectedDate, selectedTime,
                 isSubmitting, submits, closeTimers, doctorVars, storeVars, browserVars>>
  /\ UNCHANGED otherVars

\* the backend's answers to the requests of a batch, those in failed lost
BackendResponses(c, date, asked, failed) ==
  [s \in asked |-> IF s \in failed THEN "error"
                   ELSE BackendOutcome(createDateTimeString(c, date, s))]

PendingSlots(b) == {s \in Slots : b.results[s] = "pending"}

\* window.location.href = '/login': the page is unloaded, with it the component,
\* the stores and every suspended flow
PageUnload(c) ==
  /\ page' = [page EXCEPT ![c] = "login"]
  /\ isOpen' = [isOpen EXCEPT ![c] = FALSE]
  /\ currentStep' = [currentStep EXCEPT ![c] = "calendar"]
  /\ selectedDate' = [selectedDate EXCEPT ![c] = NoDate]
  /\ selectedTime' = [selectedTime EXCEPT ![c] = NoTime]
  /\ availableTimesForDate' = [availableTimesForDate EXCEPT ![c] = <<>>]
  /\ bookedTimesForDate' = [bookedTimesForDate EXCEPT ![c] = <<>>]
  /\ isSubmitting' = [isSubmitting EXCEPT ![c] = FALSE]
  /\ isCheckingAvailability' = [isCheckingAvailability EXCEPT ![c] = FALSE]
  /\ batches' = [batches EXCEPT ![c] = <<>>]
  /\ submits' = [submits EXCEPT ![c] = <<>>]
  /\ closeTimers' = [closeTimers EXCEPT ![c] = 0]
  /\ storeAvailability' = [storeAvailability EXCEPT ![c] = {}]
  /\ availabilityFetches' = [availabilityFetches EXCEPT ![c] = 0]
  /\ appointments' = [appointments EXCEPT ![c] = <<>>]
  /\ loading' = [loading EXCEPT ![c] = FALSE]
  /\ error' = [error EXCEPT ![c] = "null"]
  /\ loginForm' = [loginForm EXCEPT ![c] = EmptyLoginForm]
  /\ loginTimers' = [loginTimers EXCEPT ![c] = <<>>]
  /\ isLoggedIn' = [isLoggedIn EXCEPT ![c] = FALSE]
  /\ listOps' = [listOps EXCEPT ![c] = <<>>]
  /\ refreshing' = [refreshing EXCEPT ![c] = FALSE]
  /\ doctorStore' = DefaultDoctorState
  /\ doctorOps' = <<>>
  /\ storeResult' = [storeResult EXCEPT ![c] = "none"]

\* getUserId as it would be if it returned an id whether or not one is stored
HasUserId_Always(stored) == TRUE

\* getUserId: stored tells whether localStorage holds the key userId; the result
\* tells whether the caller gets an id (otherwise '', after the redirect)
HasUserId(stored) == stored

\* handleSubmit, up to its first suspension (the final availability check)
HandleSubmit(c) ==
  /\ page[c] = "doctors" /\ isOpen[c] /\ currentStep[c] = "form"
  /\ selectedDate[c] # NoDate /\ selectedTime[c] # NoTime
  /\ ~ isSubmitting[c]                            \* the submit button is disabled
  /\ IF ~ HasUserId(userId[c])
     THEN /\ PageUnload(c)
          /\ UNCHANGED <<backendVars, doctorAvailability, userId, lastAlert,
                         userRole, cancelTracked, now, limits, backendDoctors>>
     ELSE /\ Len(submits[c]) < limits.submits
          /\ isSubmitting' = [isSubmitting EXCEPT ![c] = TRUE]
          /\ submits' = [submits EXCEPT ![c] =
                           Append(@, [pc |-> "check", date |-> selectedDate[c],
                                      time |-> selectedTime[c],
                                      avail |-> Availabilities(c), live |-> TRUE,
                                      outcome |-> "pending", slotWasFree |-> FALSE])]
          /\ UNCHANGED <<backendVars, isOpen, currentStep, selectedDate, selectedTime,
                         availableTimesForDate, bookedTimesForDate,
                         isCheckingAvailability, batches, closeTimers, doctorVars,
                         storeVars, browserVars, otherVars>>

\* handleSubmit as it would be without the early return on a negative check
ProceedsToCreate_Always(isStillAvailable) == TRUE

\* handleSubmit as it would be with the test of the check inverted
ProceedsToCreate_Inverted(isStillAvailable) == ~ isStillAvailable

\* handleSubmit goes on to the create request only when the final check said yes
ProceedsToCreate(isStillAvailable) == isStillAvailable

\* bookNewAppointment as it would be without its test of the loading flag
StoreBusy_Never(isLoading) == FALSE

\* bookNewAppointment: 'Operation in progress' is thrown while the store loads
StoreBusy(isLoading) == isLoading

\* the conflict branch as it would be without its call of the resolver
RefreshAfterConflict_None(c, sub) ==
  UNCHANGED <<availableTimesForDate, bookedTimesForDate, isCheckingAvailability, batches>>

\* the conflict branch of handleSubmit: getAvailableTimesForDate(selectedDate),
\* with the date and the availability list of the closure of the submit
RefreshAfterConflict(c, sub) == ResolverStart(c, sub.date, sub.avail, sub.live)

\* the final check of submit i returns and handleSubmit resumes, up to its next
\* suspension (the create request issued by bookNewAppointment) or its end
FinalCheckReturns(c, i, outcome) ==
  /\ page[c] = "doctors"
  /\ i \in 1..Len(submits[c])
  /\ LET sub == submits[c][i]
         isStillAvailable == checkSlotAvailable(outcome)
         slotWasFree == BackendIsAvailable(createDateTimeString(c, sub.date, sub.time))
     IN /\ sub.pc = "check"
        /\ IF ~ ProceedsToCreate(isStillAvailable)
           THEN \* conflict: alert, refresh, back to the time step
                /\ lastAlert' = [lastAlert EXCEPT ![c] = "conflict"]
                /\ RefreshAfterConflict(c, sub)
                /\ currentStep' = SetIf(sub.live, currentStep, c, "time")
                /\ isSubmitting' = SetIf(sub.live, isSubmitting, c, FALSE)
                /\ submits' = [submits EXCEPT ![c] = RemoveAt(@, i)]
                /\ UNCHANGED <<storeVars>>
           ELSE IF StoreBusy(loading[c])
           THEN \* bookNewAppointment throws 'Operation in progress'
                /\ lastAlert' = [lastAlert EXCEPT ![c] = "error"]
                /\ isSubmitting' = SetIf(sub.live, isSubmitting, c, FALSE)
                /\ submits' = [submits EXCEPT ![c] = RemoveAt(@, i)]
                /\ UNCHANGED <<storeVars, currentStep, availableTimesForDate,
                               bookedTimesForDate, isCheckingAvailability, batches>>
           ELSE \* bookNewAppointment sets loading and issues POST /appointments
                /\ loading' = [loading EXCEPT ![c] = TRUE]
                /\ error' = [error EXCEPT ![c] = "null"]
                /\ submits' = [submits EXCEPT ![c][i] =
                                 [@ EXCEPT !.pc = "create", !.outcome = outcome,
                                           !.slotWasFree = slotWasFree]]
                /\ UNCHANGED <<appointments, lastAlert, isSubmitting, currentStep,
                               availableTimesForDate, bookedTimesForDate,
                               isCheckingAvailability, batches>>
  /\ UNCHANGED <<backendVars, isOpen, selectedDate, selectedTime, closeTimers,
                 doctorVars, userId, page>>
  /\ UNCHANGED otherVars

\* POST /appointments: the backend stores the document it is sent
NewAppointment(c, date, time) ==
  [id |-> Cardinality(appts) + 1,
   dateTime |-> createDateTimeString(c, date, time),
   date |-> date, time |-> time,
   status |-> "confirmed", userId |-> c]

\* the store's update as it would be if it dropped the cached appointments
AppendAppointment_Replace(list, newAppointment) == <<newAppointment>>

\* the store's update after a successful create
AppendAppointment(list, newAppointment) == Append(list, newAppointment)

\* handleSubmit as it would be if a failed create did not reach its catch
StepAfterCreate_IgnoresFailure(ok, step) == "success"

\* handleSubmit after bookNewAppointment: setCurrentStep('success') runs when
\* the call returned, and is skipped when it threw
StepAfterCreate(ok, step) == IF ok THEN "success" ELSE step

\* the create request of submit i returns: bookNewAppointment resumes, then
\* handleSubmit, to its end
CreateReturns(c, i, ok) ==
  /\ page[c] = "doctors"
  /\ i \in 1..Len(submits[c])
  /\ LET sub == submits[c][i]
         newAppointment == NewAppointment(c, sub.date, sub.time)
     IN /\ sub.pc = "create"
        /\ submits' = [submits EXCEPT ![c] = RemoveAt(@, i)]
        /\ isSubmitting' = SetIf(sub.live, isSubmitting, c, FALSE)
        /\ loading' = [loading EXCEPT ![c] = FALSE]
        /\ currentStep' = SetIf(sub.live, currentStep, c, StepAfterCreate(ok, currentStep[c]))
        /\ IF ok
           THEN /\ Cardinality(appts) < MaxAppointments
                /\ appts' = appts \cup {newAppointment}
                /\ appointments' = [appointments EXCEPT ![c] =
                                      AppendAppointment(@, newAppointment)]
                /\ closeTimers' = [closeTimers EXCEPT ![c] = @ + 1]
                /\ UNCHANGED <<error, lastAlert>>
           ELSE /\ error' = [error EXCEPT ![c] = "Failed to book appointment"]
                /\ lastAlert' = [lastAlert EXCEPT ![c] = "error"]
                /\ UNCHANGED <<appts, appointments, closeTimers>>
  /\ UNCHANGED <<isOpen, selectedDate, selectedTime, availableTimesForDate,
                 bookedTimesForDate, isCheckingAvailability, batches, doctorVars,
                 userId, page>>
  /\ UNCHANGED otherVars

\* Another client's handleSubmit, start to end with no step of this system in
\* between: its final check finds the slot available and its create request is
\* stored
RemoteBooking(date, time) ==
  /\ checkSlotAvailable(BackendOutcome(createDateTimeString(RemoteClient, date, time)))
  /\ Cardinality(appts) < MaxAppointments
  /\ appts' = appts \cup {NewAppointment(RemoteClient, date, time)}
  /\ UNCHANGED <<uiVars, flowVars, doctorVars, storeVars, browserVars>>
  /\ UNCHANGED otherVars

\* The same, by the user of client c in another tab or on another device: the
\* appointment is the user's, and this tab's store has not heard of it
BookedElsewhere(c, date, time) ==
  /\ checkSlotAvailable(BackendOutcome(createDateTimeString(c, date, time)))
  /\ Cardinality(appts) < MaxAppointments
  /\ appts' = appts \cup {NewAppointment(c, date, time)}
  /\ UNCHANGED <<uiVars, flowVars, doctorVars, storeVars, browserVars>>
  /\ UNCHANGED otherVars

\* the ways an availability request comes to no answer: no response at all
\* ("error"), a response that is not 2xx ("status"), a 2xx response whose body
\* has no isAvailable ("missing")
FailedResponses == {"error", "status", "missing"}

Next ==
  \/ \E time \in UserSlots : RemoteBooking(Today + 1, time)
  \/ \E c \in Clients :
      \/ OpenModal(c)
      \/ \E fetched \in AvailabilityLists : AvailabilityFetched(c, fetched)
      \/ \E date \in Dates : HandleDateSelect(c, date)
      \/ \E time \in UserSlots : HandleTimeSelect(c, time)
      \/ ContinueToDetails(c)
      \/ HandleBack(c)
      \/ HandleClose(c)
      \/ CloseTimerFires(c)
      \/ \E i \in 1..limits.batches, failed \in SUBSET FailSlots :
           /\ i <= Len(batches[c])
           /\ ChecksReturn(c, i, BackendResponses(c, batches[c][i].date,
                                                  PendingSlots(batches[c][i]), failed))
      \/ HandleSubmit(c)
      \/ \E i \in 1..limits.submits :
           /\ i <= Len(submits[c])
           /\ \E outcome \in {BackendOutcome(createDateTimeString(c, submits[c][i].date,
                                                                    submits[c][i].time))}
                                 \cup FailedResponses : FinalCheckReturns(c, i, outcome)
      \/ \E i \in 1..limits.submits, ok \in BOOLEAN : CreateReturns(c, i, ok)

Spec == Init /\ [][Next]_vars

\* ------------------------------------------------- the resolver on its own
\* The first resolver run of a modal instance, the nine responses arriving one
\* by one in any order, each with any outcome the backend or the network can
\* produce.
Outcomes == {"true", "false", "error"}

SlotCheckReturns(c, slot, outcome) ==
  /\ batches[c] # <<>>
  /\ ChecksReturn(c, 1, [s \in {slot} |-> outcome])

SelectDateWhenIdle(c, date) ==
  /\ batches[c] = <<>>
  /\ availableTimesForDate[c] = <<>> /\ bookedTimesForDate[c] = <<>>
  /\ HandleDateSelect(c, date)

\* a signed-in user, a doctor whose list names every day of the calendar
InitResolver ==
  /\ Init
  /\ userId = [c \in Clients |-> TRUE]
  /\ doctorAvailability = [c \in Clients |-> Dates]

NextResolver ==
  \E c \in Clients :
    \/ OpenModal(c)
    \/ \E date \in Dates : SelectDateWhenIdle(c, date)
    \/ \E slot \in Slots, outcome \in Outcomes : SlotCheckReturns(c, slot, outcome)
    \/ HandleClose(c)

SpecResolver == InitResolver /\ [][NextResolver]_vars

\* ------------------------------------------------------- overlapping runs
\* Back leaves a run in flight, and the next date selected starts another one
\* in the same modal instance.
MaxOverlap == 2         \* resolver runs in flight at once

InitOverlap ==
  /\ InitState
  /\ userId = [c \in Clients |-> TRUE]
  /\ doctorAvailability = [c \in Clients |-> Dates]
  /\ limits = [batches |-> MaxOverlap, submits |-> MaxSubmits]
  /\ now = LocalMidnight(Today)

\* the responses of batch i arrive, those of the slots in failed as failures
BatchReturns(c, i, failed) ==
  /\ i <= Len(batches[c])
  /\ ChecksReturn(c, i, BackendResponses(c, batches[c][i].date,
                                         PendingSlots(batches[c][i]), failed))

NextOverlap ==
  \/ \E time \in UserSlots : RemoteBooking(Today + 1, time)
  \/ \E c \in Clients :
      \/ OpenModal(c)
      \/ \E date \in Dates : HandleDateSelect(c, date)
      \/ HandleBack(c)
      \/ HandleClose(c)
      \/ \E i \in 1..MaxOverlap, failed \in SUBSET FailSlots : BatchReturns(c, i, failed)

SpecOverlap == InitOverlap /\ [][NextOverlap]_vars

\* ------------------------------------------------ browsers in two zones
\* The calendar day on which browser c shows a slot instant of the doctor:
\* format(new Date(slot), 'yyyy-MM-dd') in the browser's zone
SlotDay(c, slot) == (slot + LocalOffset(c)) \div 24

\* handleSubmit of a browser in whatever zone, start to end with no other step
\* in between: the final check and the create request carry the instant that
\* createDateTimeString computes in that browser
BookingFrom(c, date, time) ==
  /\ checkSlotAvailable(BackendOutcome(createDateTimeString(c, date, time)))
  /\ Cardinality(appts) < MaxAppointments
  /\ appts' = appts \cup {NewAppointment(c, date, time)}
  /\ UNCHANGED <<uiVars, flowVars, doctorVars, storeVars, browserVars>>
  /\ UNCHANGED otherVars

InitZones ==
  /\ InitState
  /\ userId = [c \in Clients |-> TRUE]
  /\ doctorAvailability = [c \in Clients |-> Dates]
  /\ limits = [batches |-> MaxBatches, submits |-> MaxSubmits]
  /\ now = LocalMidnight(Today)

NextZones ==
  \E c \in {RemoteClient, AbroadClient}, date \in Dates, time \in Slots :
     BookingFrom(c, date, time)

SpecZones == InitZones /\ [][NextZones]_vars

\* ---------------------------------------------------- submitting again
\* Closing the modal leaves a submit in flight, and the modal opened next can
\* submit while it is.
MaxResubmit == 2        \* submits in flight at once

InitResubmit ==
  /\ InitState
  /\ userId = [c \in Clients |-> TRUE]
  /\ doctorAvailability = [c \in Clients |-> Dates]
  /\ limits = [batches |-> MaxBatches, submits |-> MaxResubmit]
  /\ now = LocalMidnight(Today)

NextResubmit ==
  \E c \in Clients :
    \/ OpenModal(c)
    \/ \E date \in Dates : HandleDateSelect(c, date)
    \/ \E i \in 1..MaxBatches : BatchReturns(c, i, {})
    \/ \E time \in UserSlots : HandleTimeSelect(c, time)
    \/ HandleSubmit(c)
    \/ \E i \in 1..MaxResubmit :
         /\ i <= Len(submits[c])
         /\ FinalCheckReturns(c, i, BackendOutcome(createDateTimeString(
                                      c, submits[c][i].date, submits[c][i].time)))
    \/ \E i \in 1..MaxResubmit, ok \in BOOLEAN : CreateReturns(c, i, ok)
    \/ HandleClose(c)
    \/ CloseTimerFires(c)

SpecResubmit == InitResubmit /\ [][NextResubmit]_vars

\* ----------------------------------------------------- routes and identity
Routes == {"login", "doctors", "appointments", "adminCalendar", "adminDoctors"}
AdminRoutes == {"adminCalendar", "adminDoctors"}

\* ProtectedRoute: stored tells whether localStorage holds the key userId
ProtectedRoute(stored) == stored

\* AdminRoute as it would be if it tested the identity only
AdminRoute_AnyUser(stored, role) == stored

\* AdminRoute: role is the value of the key userRole ("none" when absent)
AdminRoute(stored, role) == stored /\ role = "admin"

\* the mount effect of the Login page: a stored identity is sent on
LoginLanding(stored, role) ==
  IF stored THEN (IF role = "admin" THEN "adminCalendar" ELSE "doctors") ELSE "login"

\* the page that ends up rendered when the router is asked for route
Landing(route, stored, role) ==
  LET guarded == IF route = "appointments"
                 THEN (IF ProtectedRoute(stored) THEN route ELSE "login")
                 ELSE IF route \in AdminRoutes
                 THEN (IF AdminRoute(stored, role) THEN route ELSE "login")
                 ELSE route
  IN IF guarded = "login" THEN LoginLanding(stored, role) ELSE guarded

\* --------------------------------------------------- the appointments page
CANCEL_LEAD_HOURS == 2
MaxTicks == 3           \* hours the clock advances

\* the instant of the first slot of tomorrow, and the hour the clock starts at
FirstInstant == createDateTimeString(RemoteClient, Today + 1, BUSINESS_HOURS[1])
ClockStart == FirstInstant - CANCEL_LEAD_HOURS - 1

RECURSIVE SortById(_)
SortById(S) ==
  IF S = {} THEN <<>>
  ELSE LET a == CHOOSE x \in S : \A y \in S : x.id <= y.id
       IN <<a>> \o SortById(S \ {a})

\* GET /appointments/user/:userId
UserAppointments(c) == SortById({a \in appts : a.userId = c})

\* PUT /appointments/:id/status
BackendSetStatus(id, status) ==
  {IF a.id = id THEN [a EXCEPT !.status = status] ELSE a : a \in appts}

\* the store's update after a status change: the appointment with that id is
\* replaced by the one the backend returned
ReplaceById(list, updated) ==
  [k \in 1..Len(list) |-> IF list[k].id = updated.id THEN updated ELSE list[k]]

\* handleCancelAppointment as it would be if it refused past appointments only
TooLate_PastOnly(timeDiff) == timeDiff < 0

\* handleCancelAppointment: timeDiff is the appointment's instant minus now, in hours
TooLate(timeDiff) == timeDiff < CANCEL_LEAD_HOURS

\* fetchData of AppointmentList, up to its first suspension (the doctors are
\* loaded; the identity is stored whenever the page is rendered)
FetchData(c) ==
  IF loading[c]
  THEN \* fetchUserAppointments returns at once, setRefreshing(false) follows
       /\ refreshing' = [refreshing EXCEPT ![c] = FALSE]
       /\ UNCHANGED <<listOps, loading, error>>
  ELSE /\ refreshing' = [refreshing EXCEPT ![c] = TRUE]
       /\ loading' = [loading EXCEPT ![c] = TRUE]
       /\ error' = [error EXCEPT ![c] = "null"]
       /\ listOps' = [listOps EXCEPT ![c] =
                        Append(@, [op |-> "fetch", id |-> 0, live |-> TRUE])]

\* what a navigate(to) does to the page and its components; stored tells
\* whether localStorage holds userId when the new page renders
GoTo(c, to, stored) ==
  /\ page' = [page EXCEPT ![c] = to]
  /\ IF to = page[c]
     THEN UNCHANGED <<loginForm, isLoggedIn, listOps, refreshing, loading, error>>
     ELSE /\ loginForm' = [loginForm EXCEPT ![c] = EmptyLoginForm]
          \* AppLayout's effect on location.pathname
          /\ isLoggedIn' = [isLoggedIn EXCEPT ![c] = to # "login" /\ stored]
          /\ IF to = "appointments"
             THEN FetchData(c)              \* the mount effect of AppointmentList
             ELSE /\ refreshing' = [refreshing EXCEPT ![c] = FALSE]
                  /\ listOps' = [listOps EXCEPT ![c] = Orphan(@)]
                  /\ UNCHANGED <<loading, error>>

\* a router navigation (a link, the history) with the booking modal closed
Navigate(c, route) ==
  LET to == Landing(route, userId[c], userRole[c])
  IN /\ ~ isOpen[c]
     /\ to # page[c]
     /\ GoTo(c, to, userId[c])
     /\ loginTimers' = [loginTimers EXCEPT ![c] = Orphan(@)]
     /\ UNCHANGED <<backendVars, uiVars, flowVars, doctorVars, appointments, userId,
                    lastAlert, userRole, cancelTracked, now, limits, storeResult,
                 dirVars>>

\* the Update button (disabled while refreshing) or the 30-second interval
Refresh(c, byTimer) ==
  /\ page[c] = "appointments"
  /\ byTimer \/ ~ refreshing[c]
  /\ FetchData(c)
  /\ UNCHANGED <<backendVars, uiVars, flowVars, doctorVars, appointments, browserVars,
                 loginVars, cancelTracked, now, limits, storeResult,
                 dirVars>>

\* getUserAppointments returns and fetchUserAppointments resumes, then fetchData
FetchReturns(c, i, ok) ==
  /\ i \in 1..Len(listOps[c])
  /\ listOps[c][i].op = "fetch"
  /\ listOps' = [listOps EXCEPT ![c] = RemoveAt(@, i)]
  /\ loading' = [loading EXCEPT ![c] = FALSE]
  /\ refreshing' = SetIf(listOps[c][i].live, refreshing, c, FALSE)
  /\ IF ok
     THEN /\ appointments' = [appointments EXCEPT ![c] = UserAppointments(c)]
          /\ UNCHANGED error
     ELSE /\ error' = [error EXCEPT ![c] = "Failed to fetch appointments"]
          /\ UNCHANGED appointments
  /\ UNCHANGED <<backendVars, uiVars, flowVars, doctorVars, browserVars, loginVars,
                 cancelTracked, now, limits, storeResult,
                 dirVars>>

\* handleCancelAppointment, up to its first suspension: the Cancel button of
\* the k-th listed appointment; confirmed is the answer to window.confirm
HandleCancelAppointment(c, k, confirmed) ==
  /\ page[c] = "appointments"
  /\ k \in 1..Len(appointments[c])
  /\ appointments[c][k].status # "cancelled"
  /\ LET a == appointments[c][k]
     IN IF TooLate(a.dateTime - now)
        THEN /\ lastAlert' = [lastAlert EXCEPT ![c] = "leadTime"]
             /\ UNCHANGED <<storeVars, listVars>>
        ELSE IF ~ confirmed
        THEN UNCHANGED <<storeVars, listVars, lastAlert>>
        ELSE IF loading[c]
        THEN \* updateAppointmentStatus of the store returns at once, the
             \* handler goes on to trackCrudEvents.cancelAppointment
             /\ cancelTracked' = [cancelTracked EXCEPT ![c] = @ \cup {a.id}]
             /\ UNCHANGED <<storeVars, listOps, refreshing, lastAlert>>
        ELSE /\ loading' = [loading EXCEPT ![c] = TRUE]
             /\ error' = [error EXCEPT ![c] = "null"]
             /\ listOps' = [listOps EXCEPT ![c] =
                              Append(@, [op |-> "update", id |-> a.id, live |-> TRUE])]
             /\ UNCHANGED <<appointments, refreshing, cancelTracked, lastAlert>>
  /\ UNCHANGED <<backendVars, uiVars, flowVars, doctorVars, userId, page, loginVars,
                 now, limits, storeResult,
                 dirVars>>

\* the status update returns; the store and then handleCancelAppointment resume
UpdateReturns(c, i, ok) ==
  /\ i \in 1..Len(listOps[c])
  /\ listOps[c][i].op = "update"
  /\ listOps' = [listOps EXCEPT ![c] = RemoveAt(@, i)]
  /\ loading' = [loading EXCEPT ![c] = FALSE]
  /\ LET id == listOps[c][i].id
     IN IF ok
        THEN /\ appts' = BackendSetStatus(id, "cancelled")
             /\ appointments' =
                  [appointments EXCEPT ![c] =
                     ReplaceById(@, CHOOSE a \in appts' : a.id = id)]
             /\ cancelTracked' = [cancelTracked EXCEPT ![c] = @ \cup {id}]
             /\ UNCHANGED <<error, lastAlert>>
        ELSE /\ error' = [error EXCEPT ![c] = "Failed to update appointment status"]
             /\ lastAlert' = [lastAlert EXCEPT ![c] = "cancelFailed"]
             /\ UNCHANGED <<appts, appointments, cancelTracked>>
  /\ UNCHANGED <<uiVars, flowVars, doctorVars, userId, page, loginVars, refreshing,
                 now, limits, storeResult,
                 dirVars>>

\* an hour passes
Tick ==
  /\ now < ClockStart + MaxTicks
  /\ now' = now + 1
  /\ UNCHANGED <<backendVars, uiVars, flowVars, doctorVars, storeVars, browserVars,
                 loginVars, listVars, limits, storeResult,
                 dirVars>>

\* the appointments page of a signed-in user whose first possible appointment
\* is one hour more than the lead time away
InitAppointments ==
  /\ InitState
  /\ \A c \in Clients : userId[c]
  /\ limits = [batches |-> MaxBatches, submits |-> MaxSubmits]
  /\ now = ClockStart

NextAppointments ==
  \/ \E c \in Clients, route \in {"doctors", "appointments"} : Navigate(c, route)
  \/ \E c \in Clients, byTimer \in BOOLEAN : Refresh(c, byTimer)
  \/ \E c \in Clients, i \in 1..1, ok \in BOOLEAN : FetchReturns(c, i, ok)
  \/ \E c \in Clients, k \in 1..MaxAppointments, confirmed \in BOOLEAN :
       HandleCancelAppointment(c, k, confirmed)
  \/ \E c \in Clients, i \in 1..1, ok \in BOOLEAN : UpdateReturns(c, i, ok)
  \/ \E c \in Clients, date \in Dates \ {Today}, time \in UserSlots :
       BookedElsewhere(c, date, time)
  \/ Tick

SpecAppointments == InitAppointments /\ [][NextAppointments]_vars

\* ------------------------------------------ the appointment store by itself
\* Its six actions, called with valid arguments as the pages call them, in any
\* order and at any time.
StoreActions ==
  {"fetchUserAppointments", "fetchAllAppointments", "bookNewAppointment",
   "cancelUserAppointment", "updateAppointmentStatus", "updateAppointmentDetails"}

\* the actions whose catch block throws the failure on to the caller
Rethrowing == StoreActions \ {"fetchUserAppointments", "fetchAllAppointments"}

\* the store as it would be if every action returned quietly while loading
BusyResult_AllResolve(action) == "resolved"

\* how an action called while the store is loading comes back
BusyResult(action) ==
  IF action \in {"bookNewAppointment", "updateAppointmentDetails"}
  THEN "Operation in progress" ELSE "resolved"

\* the fallback message stored in error when the request of an action fails
FailureMessage(action) ==
  CASE action = "fetchUserAppointments" -> "Failed to fetch appointments"
    [] action = "fetchAllAppointments" -> "Failed to fetch all appointments"
    [] action = "bookNewAppointment" -> "Failed to book appointment"
    [] action = "cancelUserAppointment" -> "Failed to cancel appointment"
    [] action = "updateAppointmentStatus" -> "Failed to update appointment status"
    [] action = "updateAppointmentDetails" -> "Failed to update appointment"

\* the status the three updating actions are called with: 'cancelled' by the
\* two cancelling actions, and the edit form of the admin page can send it too
StatusSent(action) == "cancelled"

\* the store as it would be if its catch blocks left loading as it is
LoadingAfter_StuckOnFailure(ok, isLoading) == IF ok THEN FALSE ELSE isLoading

\* loading once the request of an action has returned: the try block and the
\* catch block both end with loading: false
LoadingAfter(ok, isLoading) == FALSE

\* GET /appointments
AllAppointments == SortById(appts)

\* a store action is called: it runs up to its first suspension
StoreCall(c, action, id, time) ==
  /\ IF loading[c]
     THEN /\ storeResult' = [storeResult EXCEPT ![c] = BusyResult(action)]
          /\ UNCHANGED <<storeVars, listOps>>
     ELSE /\ loading' = [loading EXCEPT ![c] = TRUE]
          /\ error' = [error EXCEPT ![c] = "null"]
          /\ listOps' = [listOps EXCEPT ![c] =
                           Append(@, [op |-> action, id |-> id, time |-> time,
                                      live |-> TRUE])]
          /\ storeResult' = [storeResult EXCEPT ![c] = "pending"]
          /\ UNCHANGED appointments
  /\ UNCHANGED <<backendVars, uiVars, flowVars, doctorVars, browserVars, loginVars,
                 refreshing, cancelTracked, now, limits, dirVars>>

\* the request of a store action returns and the action runs to its end
StoreCallReturns(c, i, ok) ==
  /\ i \in 1..Len(listOps[c])
  /\ listOps[c][i].op \in StoreActions
  /\ LET call == listOps[c][i]
         newAppointment == NewAppointment(c, Today + 1, call.time)
     IN /\ listOps' = [listOps EXCEPT ![c] = RemoveAt(@, i)]
        /\ loading' = [loading EXCEPT ![c] = LoadingAfter(ok, loading[c])]
        /\ IF ok
           THEN /\ storeResult' = [storeResult EXCEPT ![c] = "resolved"]
                /\ UNCHANGED error
                /\ CASE call.op = "fetchUserAppointments" ->
                          /\ appointments' = [appointments EXCEPT ![c] = UserAppointments(c)]
                          /\ UNCHANGED appts
                     [] call.op = "fetchAllAppointments" ->
                          /\ appointments' = [appointments EXCEPT ![c] = AllAppointments]
                          /\ UNCHANGED appts
                     [] call.op = "bookNewAppointment" ->
                          /\ Cardinality(appts) < MaxAppointments
                          /\ appts' = appts \cup {newAppointment}
                          /\ appointments' = [appointments EXCEPT ![c] =
                                                AppendAppointment(@, newAppointment)]
                     [] OTHER ->
                          /\ \E a \in appts : a.id = call.id
                          /\ appts' = BackendSetStatus(call.id, StatusSent(call.op))
                          /\ appointments' =
                               [appointments EXCEPT ![c] =
                                  ReplaceById(@, CHOOSE a \in appts' : a.id = call.id)]
           ELSE /\ error' = [error EXCEPT ![c] = FailureMessage(call.op)]
                /\ storeResult' = [storeResult EXCEPT ![c] =
                                     IF call.op \in Rethrowing THEN "rejected" ELSE "resolved"]
                /\ UNCHANGED <<appts, appointments>>
  /\ UNCHANGED <<uiVars, flowVars, doctorVars, browserVars, loginVars,
                 refreshing, cancelTracked, now, limits, dirVars>>

InitStore ==
  /\ InitState
  /\ \A c \in Clients : userId[c]
  /\ limits = [batches |-> MaxBatches, submits |-> MaxSubmits]
  /\ now = ClockStart

NextStore ==
  \/ \E c \in Clients, action \in StoreActions, id \in 1..MaxAppointments,
        time \in UserSlots : StoreCall(c, action, id, time)
  \/ \E c \in Clients, i \in 1..1, ok \in BOOLEAN : StoreCallReturns(c, i, ok)

SpecStore == InitStore /\ [][NextStore]_vars

\* ------------------------------------------- every request gets its answer
\* The modal and the store together, with each pending request answered in the
\* end.  The store's actions other than bookNewAppointment are called by the
\* appointments page and the admin page, where the modal is not open; the
\* request they started can still be pending when the modal is opened.  The
\* steps that answer a request, per client:
FinalCheckAnswered(c) ==
  \E i \in 1..limits.submits :
    /\ i <= Len(submits[c])
    /\ \E outcome \in {BackendOutcome(createDateTimeString(c, submits[c][i].date,
                                                             submits[c][i].time))}
                          \cup FailedResponses : FinalCheckReturns(c, i, outcome)

CreateAnswered(c) == \E i \in 1..limits.submits, ok \in BOOLEAN : CreateReturns(c, i, ok)

BatchAnswered(c) ==
  \E i \in 1..limits.batches, failed \in SUBSET FailSlots : BatchReturns(c, i, failed)

StoreCallAnswered(c) == \E i \in 1..1, ok \in BOOLEAN : StoreCallReturns(c, i, ok)

InitLive ==
  /\ InitState
  /\ doctorAvailability = [c \in Clients |-> Dates]
  /\ limits = [batches |-> MaxBatches, submits |-> MaxSubmits]
  /\ now = LocalMidnight(Today)

NextLive ==
  \E c \in Clients :
      \/ OpenModal(c)
      \/ HandleDateSelect(c, Today + 1)
      \/ \E time \in UserSlots : HandleTimeSelect(c, time)
      \/ HandleBack(c)
      \/ HandleClose(c)
      \/ HandleSubmit(c)
      \/ \E action \in StoreActions \ {"bookNewAppointment"}, time \in UserSlots :
           ~ isOpen[c] /\ StoreCall(c, action, 1, time)
      \/ FinalCheckAnswered(c)
      \/ CreateAnswered(c)
      \/ BatchAnswered(c)
      \/ StoreCallAnswered(c)

\* Every network call resolves or rejects in the end.  The answer to a final
\* check can find the step that takes it disabled only by the cap on resolver
\* runs, which the program does not have: hence strong fairness there.
AnswersArrive ==
  \A c \in Clients :
    /\ SF_vars(FinalCheckAnswered(c))
    /\ WF_vars(CreateAnswered(c))
    /\ WF_vars(BatchAnswered(c))
    /\ WF_vars(StoreCallAnswered(c))

SpecLive == InitLive /\ [][NextLive]_vars /\ AnswersArrive

\* ------------------------------------------------------- login and logout
MaxLoginTimers == 2     \* 800 ms timers of the Login page not yet fired

\* the email field is edited: valid tells whether the text matches the pattern
EditEmail(c, valid) ==
  /\ page[c] = "login"
  /\ loginForm[c].isValid # valid
  /\ loginForm' = [loginForm EXCEPT ![c].isValid = valid]
  /\ UNCHANGED <<backendVars, uiVars, flowVars, doctorVars, storeVars, browserVars,
                 userRole, loginTimers, isLoggedIn, listVars, now, limits, storeResult,
                 dirVars>>

\* the "admin login" shortcut: the admin flag and the admin's address
HandleAdminLogin(c) ==
  /\ page[c] = "login"
  /\ loginForm' = [loginForm EXCEPT ![c].isAdmin = TRUE, ![c].isValid = TRUE]
  /\ UNCHANGED <<backendVars, uiVars, flowVars, doctorVars, storeVars, browserVars,
                 userRole, loginTimers, isLoggedIn, listVars, now, limits, storeResult,
                 dirVars>>

\* Login.handleSubmit: the button is disabled unless isValid and not submitting;
\* the timer's closure keeps the isAdmin of this render
LoginSubmit(c) ==
  /\ page[c] = "login"
  /\ loginForm[c].isValid
  /\ ~ loginForm[c].isSubmitting
  /\ Len(loginTimers[c]) < MaxLoginTimers
  /\ loginForm' = [loginForm EXCEPT ![c].isSubmitting = TRUE]
  /\ loginTimers' = [loginTimers EXCEPT ![c] =
                       Append(@, [isAdmin |-> loginForm[c].isAdmin, live |-> TRUE])]
  /\ UNCHANGED <<backendVars, uiVars, flowVars, doctorVars, storeVars, browserVars,
                 userRole, isLoggedIn, listVars, now, limits, storeResult,
                 dirVars>>

\* the value Login writes under userRole
RoleOf(isAdmin) == IF isAdmin THEN "admin" ELSE "user"

\* the 800 ms timer of handleSubmit fires (the booking modal is closed): both
\* keys are written, then the router is sent to the landing page of the role
LoginTimerFires(c, i) ==
  /\ i \in 1..Len(loginTimers[c])
  /\ ~ isOpen[c]
  /\ LET t == loginTimers[c][i]
         role == RoleOf(t.isAdmin)
     IN /\ userId' = [userId EXCEPT ![c] = TRUE]
        /\ userRole' = [userRole EXCEPT ![c] = role]
        /\ GoTo(c, Landing(IF t.isAdmin THEN "adminCalendar" ELSE "doctors", TRUE, role),
                TRUE)
  /\ loginTimers' = [loginTimers EXCEPT ![c] = Orphan(RemoveAt(@, i))]
  /\ UNCHANGED <<backendVars, uiVars, flowVars, doctorVars, appointments, lastAlert,
                 cancelTracked, now, limits, storeResult,
                 dirVars>>

\* App.handleLogout: the Sign Out button of the header, shown while isLoggedIn
HandleLogout(c) ==
  /\ page[c] # "login"
  /\ isLoggedIn[c]
  /\ ~ isOpen[c]
  /\ userId' = [userId EXCEPT ![c] = FALSE]
  /\ userRole' = [userRole EXCEPT ![c] = "none"]
  /\ GoTo(c, "login", FALSE)
  /\ UNCHANGED <<backendVars, uiVars, flowVars, doctorVars, appointments, lastAlert,
                 loginTimers, cancelTracked, now, limits, storeResult,
                 dirVars>>

\* localStorage is shared by the tabs of the origin: a login or a logout in
\* another tab rewrites both keys under this one, which renders nothing anew
StorageElsewhere(c, stored, isAdmin) ==
  /\ userId' = [userId EXCEPT ![c] = stored]
  /\ userRole' = [userRole EXCEPT ![c] = IF stored THEN RoleOf(isAdmin) ELSE "none"]
  /\ <<userId'[c], userRole'[c]>> # <<userId[c], userRole[c]>>
  /\ UNCHANGED <<backendVars, uiVars, flowVars, doctorVars, storeVars, page, lastAlert,
                 loginForm, loginTimers, isLoggedIn, listVars, now, limits, storeResult,
                 dirVars>>

InitAuth ==
  /\ InitState
  /\ limits = [batches |-> MaxBatches, submits |-> MaxSubmits]
  /\ now = ClockStart

NextAuth ==
  \/ \E c \in Clients, route \in Routes : Navigate(c, route)
  \/ \E c \in Clients, valid \in BOOLEAN : EditEmail(c, valid)
  \/ \E c \in Clients : HandleAdminLogin(c)
  \/ \E c \in Clients : LoginSubmit(c)
  \/ \E c \in Clients, i \in 1..MaxLoginTimers : LoginTimerFires(c, i)
  \/ \E c \in Clients : HandleLogout(c)
  \/ \E c \in Clients, stored \in BOOLEAN, isAdmin \in BOOLEAN :
       StorageElsewhere(c, stored, isAdmin)
  \/ \E c \in Clients, i \in 1..1, ok \in BOOLEAN : FetchReturns(c, i, ok)

SpecAuth == InitAuth /\ [][NextAuth]_vars

\* --------------------------------------------------------- the doctor store
MaxDoctors == 2         \* doctor ids 1..MaxDoctors
MaxDoctorOps == 2       \* doctor-store actions suspended on the network

DoctorIds == 1..MaxDoctors
AvailabilityFilters == {"any", "today", "this-week", "next-available"}
DAYS_PER_WEEK == 7

\* the instant of the slot a doctor offers on a day (the first business hour)
SlotInstant(day) == createDateTimeString(RemoteClient, day, BUSINESS_HOURS[1])

\* startOfDay, endOfDay, startOfWeek, endOfWeek of date-fns, in hours
DayOf(clock) == (clock + LocalOffset(RemoteClient)) \div 24
StartOfDay(clock) == LocalMidnight(DayOf(clock))
EndOfDay(clock) == StartOfDay(clock) + 24
StartOfWeek(clock) == LocalMidnight(DayOf(clock) - (DayOf(clock) % DAYS_PER_WEEK))
EndOfWeek(clock) == StartOfWeek(clock) + 24 * DAYS_PER_WEEK

\* doctorsWithAvailability[doctor.id] || []
EntryOf(map, id) == IF id \in DOMAIN map THEN map[id] ELSE {}

\* the test of applyFilters' availability filter for one doctor
MatchesAvailability(availabilities, filter, clock) ==
  /\ availabilities # {}
  /\ CASE filter = "today" ->
            \E d \in availabilities :
              SlotInstant(d) > StartOfDay(clock) /\ SlotInstant(d) < EndOfDay(clock)
       [] filter = "this-week" ->
            \E d \in availabilities :
              SlotInstant(d) > StartOfWeek(clock) /\ SlotInstant(d) < EndOfWeek(clock)
       [] filter = "next-available" ->
            \E d \in availabilities : SlotInstant(d) > clock
       [] OTHER -> TRUE

\* applyFilters: the list it computes from the state st of the store
ApplyFilters(st, clock) ==
  LET bySpecialty ==
        IF st.selectedSpecialties # {}
        THEN SelectSeq(st.doctors, LAMBDA d : d.specialty \in st.selectedSpecialties)
        ELSE st.doctors
  IN IF st.selectedAvailability # "any" /\ DOMAIN st.doctorsWithAvailability # {}
     THEN SelectSeq(bySpecialty,
                    LAMBDA d : MatchesAvailability(EntryOf(st.doctorsWithAvailability, d.id),
                                                   st.selectedAvailability, clock))
     ELSE bySpecialty

\* applyFilters as a store update: set({ filteredDoctors: filtered })
WithFilters(st, clock) == [st EXCEPT !.filteredDoctors = ApplyFilters(st, clock)]

RECURSIVE SortDoctors(_)
SortDoctors(S) ==
  IF S = {} THEN <<>>
  ELSE LET d == CHOOSE x \in S : \A y \in S : x.id <= y.id
       IN <<d>> \o SortDoctors(S \ {d})

\* GET /doctors?includeAvailability=true: a doctor object the store receives
DoctorObject(b) == [id |-> b.id, specialty |-> b.specialty]
GetDoctors == SortDoctors(backendDoctors)

\* an action of the store that is suspended on the network
DoctorOp(op, id, specialty, ids) == [op |-> op, id |-> id, specialty |-> specialty, ids |-> ids]

\* fetchDoctorAvailabilities(ids), up to its first suspension, from the state st
StartAvailabilities(ids, ops) ==
  IF ids = {} THEN ops ELSE Append(ops, DoctorOp("avail", 0, "none", ids))

\* fetchDoctors, up to its first suspension
FetchDoctors ==
  /\ Len(doctorOps) < MaxDoctorOps
  /\ IF doctorStore.loading
     THEN UNCHANGED <<doctorStore, doctorOps>>
     ELSE /\ doctorStore' = [doctorStore EXCEPT !.loading = TRUE, !.error = "null"]
          /\ doctorOps' = Append(doctorOps, DoctorOp("fetch", 0, "none", {}))
  /\ UNCHANGED <<backendVars, uiVars, flowVars, doctorVars, storeVars, browserVars,
                 loginVars, listVars, now, limits, storeResult, backendDoctors>>

\* getDoctors returns and fetchDoctors resumes: the lists and the map are set,
\* then the doctors that came without availability are asked for
FetchDoctorsReturns(i, ok) ==
  /\ i \in 1..Len(doctorOps)
  /\ doctorOps[i].op = "fetch"
  /\ IF ok
     THEN LET withAvailability == {b \in backendDoctors : b.included}
              availabilityMap ==
                [id \in {b.id : b \in withAvailability} |->
                   (CHOOSE b \in withAvailability : b.id = id).availability]
              allDoctors == [k \in 1..Len(GetDoctors) |-> DoctorObject(GetDoctors[k])]
          IN /\ doctorStore' = [doctorStore EXCEPT !.doctors = allDoctors,
                                                   !.filteredDoctors = allDoctors,
                                                   !.loading = FALSE,
                                                   !.doctorsWithAvailability = availabilityMap]
             /\ doctorOps' = StartAvailabilities({b.id : b \in backendDoctors \ withAvailability},
                                                 RemoveAt(doctorOps, i))
     ELSE /\ doctorStore' = [doctorStore EXCEPT !.error = "Failed to fetch doctors",
                                                !.loading = FALSE]
          /\ doctorOps' = RemoveAt(doctorOps, i)
  /\ UNCHANGED <<backendVars, uiVars, flowVars, doctorVars, storeVars, browserVars,
                 loginVars, listVars, now, limits, storeResult, backendDoctors>>

\* fetchDoctorAvailabilities(doctorIds) called from outside the store (the
\* booking modal's effect calls it with its doctor's id)
FetchDoctorAvailabilities(ids) ==
  /\ ids # {}
  /\ Len(doctorOps) < MaxDoctorOps
  /\ doctorOps' = StartAvailabilities(ids, doctorOps)
  /\ UNCHANGED doctorStore
  /\ UNCHANGED <<backendVars, uiVars, flowVars, doctorVars, storeVars, browserVars,
                 loginVars, listVars, now, limits, storeResult, backendDoctors>>

\* GET /doctors/:id/availability: the days of the doctor's slots; the request
\* fails for a doctor the backend does not have
HasDoctor(id) == \E b \in backendDoctors : b.id = id
BackendAvailabilityOf(id) == (CHOOSE b \in backendDoctors : b.id = id).availability

\* the requests of a fetchDoctorAvailabilities have all returned, those for the
\* ids in failed with an error: the map it built is set, the filters applied
AvailabilitiesReturn(i, failed) ==
  /\ i \in 1..Len(doctorOps)
  /\ doctorOps[i].op = "avail"
  /\ failed \subseteq doctorOps[i].ids
  /\ \A id \in doctorOps[i].ids \ failed : HasDoctor(id)
  /\ LET availabilitiesMap ==
           [id \in doctorOps[i].ids |->
              IF id \in failed THEN {} ELSE BackendAvailabilityOf(id)]
     IN doctorStore' =
          WithFilters([doctorStore EXCEPT !.doctorsWithAvailability = availabilitiesMap], now)
  /\ doctorOps' = RemoveAt(doctorOps, i)
  /\ UNCHANGED <<backendVars, uiVars, flowVars, doctorVars, storeVars, browserVars,
                 loginVars, listVars, now, limits, storeResult, backendDoctors>>

FilterBySpecialty(specialties) ==
  /\ doctorStore' = WithFilters([doctorStore EXCEPT !.selectedSpecialties = specialties], now)
  /\ UNCHANGED doctorOps
  /\ UNCHANGED <<backendVars, uiVars, flowVars, doctorVars, storeVars, browserVars,
                 loginVars, listVars, now, limits, storeResult, backendDoctors>>

FilterByAvailability(availability) ==
  /\ doctorStore' = WithFilters([doctorStore EXCEPT !.selectedAvailability = availability], now)
  /\ UNCHANGED doctorOps
  /\ UNCHANGED <<backendVars, uiVars, flowVars, doctorVars, storeVars, browserVars,
                 loginVars, listVars, now, limits, storeResult, backendDoctors>>

ResetFilters ==
  /\ doctorStore' = WithFilters([doctorStore EXCEPT !.selectedSpecialties = {},
                                                    !.selectedAvailability = "any"], now)
  /\ UNCHANGED doctorOps
  /\ UNCHANGED <<backendVars, uiVars, flowVars, doctorVars, storeVars, browserVars,
                 loginVars, listVars, now, limits, storeResult, backendDoctors>>

\* setDoctorAvailability: a copy of the map with the doctor's entry set
SetEntry(map, id, slots) ==
  [d \in DOMAIN map \cup {id} |-> IF d = id THEN slots ELSE map[d]]

SetDoctorAvailability(id, slots) ==
  /\ doctorStore' =
       WithFilters([doctorStore EXCEPT
                      !.doctorsWithAvailability = SetEntry(@, id, slots)], now)
  /\ UNCHANGED doctorOps
  /\ UNCHANGED <<backendVars, uiVars, flowVars, doctorVars, storeVars, browserVars,
                 loginVars, listVars, now, limits, storeResult, backendDoctors>>

\* updateDoctorDetails, createNewDoctor, deleteExistingDoctor up to their
\* suspension: set({ loading: true, error: null }) and the request
StartDoctorWrite(op, id, specialty) ==
  /\ Len(doctorOps) < MaxDoctorOps
  /\ doctorStore' = [doctorStore EXCEPT !.loading = TRUE, !.error = "null"]
  /\ doctorOps' = Append(doctorOps, DoctorOp(op, id, specialty, {}))
  /\ UNCHANGED <<backendVars, uiVars, flowVars, doctorVars, storeVars, browserVars,
                 loginVars, listVars, now, limits, storeResult, backendDoctors>>

\* the admin page offers Edit and Delete for the doctors the store lists
Listed(id) == \E k \in 1..Len(doctorStore.doctors) : doctorStore.doctors[k].id = id

UpdateDoctorDetails(id, specialty) == Listed(id) /\ StartDoctorWrite("update", id, specialty)
CreateNewDoctor(specialty) == StartDoctorWrite("create", 0, specialty)
DeleteExistingDoctor(id) == Listed(id) /\ StartDoctorWrite("delete", id, "none")

\* the catch branch of the three
DoctorWriteFailed(message) ==
  /\ doctorStore' = [doctorStore EXCEPT !.error = message, !.loading = FALSE]
  /\ UNCHANGED backendDoctors

\* the list with the doctor of that id replaced
ReplaceDoctor(list, updated) ==
  [k \in 1..Len(list) |-> IF list[k].id = updated.id THEN updated ELSE list[k]]

\* PUT /doctors/:id returns and updateDoctorDetails resumes.  The updater passed
\* to set calls applyFilters, which reads the state before the update; its
\* result is what the updater returns for filteredDoctors.
UpdateDoctorReturns(i, ok) ==
  /\ i \in 1..Len(doctorOps)
  /\ doctorOps[i].op = "update"
  /\ doctorOps' = RemoveAt(doctorOps, i)
  /\ IF ok
     THEN /\ HasDoctor(doctorOps[i].id)
          /\ backendDoctors' =
               {IF b.id = doctorOps[i].id THEN [b EXCEPT !.specialty = doctorOps[i].specialty]
                                          ELSE b : b \in backendDoctors}
          /\ LET updatedDoctor ==
                   DoctorObject(CHOOSE b \in backendDoctors' : b.id = doctorOps[i].id)
             IN doctorStore' =
                  [doctorStore EXCEPT !.doctors = ReplaceDoctor(@, updatedDoctor),
                                      !.filteredDoctors = ApplyFilters(doctorStore, now),
                                      !.loading = FALSE]
     ELSE DoctorWriteFailed("Failed to update doctor")
  /\ UNCHANGED <<backendVars, uiVars, flowVars, doctorVars, storeVars, browserVars,
                 loginVars, listVars, now, limits, storeResult>>

\* the id the backend gives the next doctor
NewDoctorId == CHOOSE id \in DoctorIds : ~ HasDoctor(id) /\ \A j \in 1..(id - 1) : HasDoctor(j)

\* POST /doctors returns and createNewDoctor resumes, with the same updater
CreateDoctorReturns(i, ok) ==
  /\ i \in 1..Len(doctorOps)
  /\ doctorOps[i].op = "create"
  /\ doctorOps' = RemoveAt(doctorOps, i)
  /\ IF ok
     THEN /\ \E id \in DoctorIds : ~ HasDoctor(id)
          /\ LET created == [id |-> NewDoctorId, specialty |-> doctorOps[i].specialty,
                             included |-> FALSE, availability |-> {}]
             IN /\ backendDoctors' = backendDoctors \cup {created}
                /\ doctorStore' =
                     [doctorStore EXCEPT !.doctors = Append(@, DoctorObject(created)),
                                         !.filteredDoctors = ApplyFilters(doctorStore, now),
                                         !.loading = FALSE]
     ELSE DoctorWriteFailed("Failed to create doctor")
  /\ UNCHANGED <<backendVars, uiVars, flowVars, doctorVars, storeVars, browserVars,
                 loginVars, listVars, now, limits, storeResult>>

\* DELETE /doctors/:id returns and deleteExistingDoctor resumes
DeleteDoctorReturns(i, ok) ==
  /\ i \in 1..Len(doctorOps)
  /\ doctorOps[i].op = "delete"
  /\ doctorOps' = RemoveAt(doctorOps, i)
  /\ IF ok
     THEN /\ HasDoctor(doctorOps[i].id)
          /\ backendDoctors' = {b \in backendDoctors : b.id # doctorOps[i].id}
          /\ LET updatedDoctors ==
                   SelectSeq(doctorStore.doctors, LAMBDA d : d.id # doctorOps[i].id)
             IN doctorStore' = [doctorStore EXCEPT !.doctors = updatedDoctors,
                                                   !.filteredDoctors = updatedDoctors,
                                                   !.loading = FALSE]
     ELSE DoctorWriteFailed("Failed to delete doctor")
  /\ UNCHANGED <<backendVars, uiVars, flowVars, doctorVars, storeVars, browserVars,
                 loginVars, listVars, now, limits, storeResult>>

InitDoctors ==
  /\ InitState
  /\ \A c \in Clients : userId[c]
  /\ doctorAvailability = [c \in Clients |-> Dates]
  /\ limits = [batches |-> MaxBatches, submits |-> MaxSubmits]
  /\ now = LocalMidnight(Today)

\* the inputs tried: the filters a user picks, the doctor that is edited, the
\* doctor that is deleted or whose availability is asked for
SpecialtyChoices == {{}, {"Cardiology"}}
AvailabilityChoices == {"any", "next-available"}
EditedDoctors == {1}
RemovedDoctors == {2}

NextDoctors ==
  \/ FetchDoctors
  \/ \E i \in 1..MaxDoctorOps, ok \in BOOLEAN : FetchDoctorsReturns(i, ok)
  \/ FetchDoctorAvailabilities(RemovedDoctors)
  \/ \E i \in 1..MaxDoctorOps, failed \in SUBSET RemovedDoctors : AvailabilitiesReturn(i, failed)
  \/ \E specialties \in SpecialtyChoices : FilterBySpecialty(specialties)
  \/ \E availability \in AvailabilityChoices : FilterByAvailability(availability)
  \/ ResetFilters
  \/ \E id \in EditedDoctors, slots \in AvailabilityLists : SetDoctorAvailability(id, slots)
  \/ \E id \in EditedDoctors, specialty \in Specialties : UpdateDoctorDetails(id, specialty)
  \/ \E specialty \in Specialties : CreateNewDoctor(specialty)
  \/ \E id \in RemovedDoctors : DeleteExistingDoctor(id)
  \/ \E i \in 1..MaxDoctorOps, ok \in BOOLEAN : UpdateDoctorReturns(i, ok)
  \/ \E i \in 1..MaxDoctorOps, ok \in BOOLEAN : CreateDoctorReturns(i, ok)
  \/ \E i \in 1..MaxDoctorOps, ok \in BOOLEAN : DeleteDoctorReturns(i, ok)

SpecDoctors == InitDoctors /\ [][NextDoctors]_vars

\* ================================================================== claims
NegativeOutcomes == {"false", "error"}

\* C1: a submit whose final check comes back unavailable (the backend says the
\* slot is taken, or the request fails) raises the conflict alert, ends without
\* a create request, and leaves the backend and the appointment store as they were
C1_ConflictAborts ==
  [][\A c \in Clients, i \in 1..MaxSubmits, outcome \in NegativeOutcomes :
       FinalCheckReturns(c, i, outcome) =>
         /\ lastAlert'[c] = "conflict"
         /\ submits'[c] = RemoveAt(submits[c], i)
         /\ appts' = appts
         /\ appointments'[c] = appointments[c]
         /\ loading'[c] = loading[c]
         /\ error'[c] = error[c]]_vars

\* the slot was displayed as available and chosen, another client then took it,
\* and the submit ended in the conflict alert with nothing stored locally
C1_Witness ==
  \E c \in Clients :
    /\ lastAlert[c] = "conflict" /\ currentStep[c] = "time" /\ submits[c] = <<>>
    /\ selectedDate[c] # NoDate /\ selectedTime[c] # NoTime
    /\ appointments[c] = <<>> /\ ~ loading[c]
    /\ \E a \in appts : /\ a.userId = RemoteClient
                        /\ a.date = selectedDate[c] /\ a.time = selectedTime[c]

\* C2: a create request is in flight only for a submit whose final check was
\* answered while the slot held no non-cancelled appointment; the check and the
\* write being two round trips, that is all the protection there is, and the
\* double-booked state C2_DoubleBooked is reachable
C2_CreateOnlyAfterFreeCheck ==
  \A c \in Clients : \A i \in 1..Len(submits[c]) :
    submits[c][i].pc = "create" => submits[c][i].slotWasFree

\* two non-cancelled appointments of two clients on one (date, time, instant)
C2_DoubleBooked ==
  \E a, b \in appts :
    /\ a.id # b.id /\ a.userId # b.userId
    /\ a.date = b.date /\ a.time = b.time /\ a.dateTime = b.dateTime
    /\ a.status # "cancelled" /\ b.status # "cancelled"

\* C3: within a submit the create request is issued only after the final check
\* has returned, and only when it returned available; while the check is
\* pending the submit has no create request
C3_CheckBeforeCreate ==
  \A c \in Clients : \A i \in 1..Len(submits[c]) :
    /\ submits[c][i].pc = "create" => submits[c][i].outcome = "true"
    /\ submits[c][i].pc = "check" => submits[c][i].outcome = "pending"
    /\ submits[c][i].pc \in {"check", "create"}

\* a create request is in flight, its check having returned available
C3_Witness ==
  \E c \in Clients : \E i \in 1..Len(submits[c]) :
    submits[c][i].pc = "create" /\ submits[c][i].outcome = "true" /\ loading[c]

\* C4: a resolver run for a date that is not in the doctor's availability list
\* issues no per-slot request and sets the available list empty and the booked
\* list to the nine catalogue slots (such a run happens when the list changed
\* after the date was chosen and a conflict refreshes the slots)
C4_DayGate ==
  [][\A c \in Clients, i \in 1..MaxSubmits, outcome \in NegativeOutcomes :
       (FinalCheckReturns(c, i, outcome) /\ submits[c][i].date \notin submits[c][i].avail) =>
         /\ batches'[c] = batches[c]
         /\ submits[c][i].live =>
              /\ availableTimesForDate'[c] = <<>>
              /\ bookedTimesForDate'[c] = BUSINESS_HOURS
              /\ Len(bookedTimesForDate'[c]) = 9]_vars

C4_Witness ==
  \E c \in Clients :
    /\ isOpen[c] /\ currentStep[c] = "time" /\ lastAlert[c] = "conflict"
    /\ selectedDate[c] # NoDate /\ selectedDate[c] \notin Availabilities(c)
    /\ availableTimesForDate[c] = <<>> /\ bookedTimesForDate[c] = BUSINESS_HOURS
    /\ batches[c] = <<>> /\ ~ isCheckingAvailability[c]

IsPartitionOfCatalogue(available, booked) ==
  /\ SeqToSet(available) \cap SeqToSet(booked) = {}
  /\ SeqToSet(available) \cup SeqToSet(booked) = Slots
  /\ NoDup(available) /\ NoDup(booked)
  /\ Cardinality(Slots) = 9

\* C5: once a run for an available day has set them, whatever the nine
\* responses were, the available and booked lists are disjoint and together are
\* exactly the nine catalogue slots; so are the lists of the catch branch
C5_Partition ==
  /\ \A c \in Clients :
       \/ availableTimesForDate[c] = <<>> /\ bookedTimesForDate[c] = <<>>
       \/ IsPartitionOfCatalogue(availableTimesForDate[c], bookedTimesForDate[c])
  /\ IsPartitionOfCatalogue(FallbackPartition.available, FallbackPartition.booked)

\* a run has ended with some slots available and some booked
C5_Witness ==
  \E c \in Clients :
    /\ isOpen[c] /\ ~ isCheckingAvailability[c] /\ batches[c] = <<>>
    /\ Len(availableTimesForDate[c]) = 6 /\ Len(bookedTimesForDate[c]) = 3

\* C6: when the last response of a run arrives, whichever slot it is for, every
\* slot whose own check returned true is in the available list and not in the
\* booked list, and every slot whose own check returned false is in the booked
\* list and not in the available list
C6_OwnCheckDecides ==
  [][\A c \in Clients, slot \in Slots, outcome \in Outcomes :
       (/\ SlotCheckReturns(c, slot, outcome)
        /\ batches[c][1].live
        /\ batches'[c] = <<>>) =>
         \A s \in Slots :
           LET returned == IF s = slot THEN checkSlotAvailable(outcome)
                                       ELSE batches[c][1].results[s] = "yes"
           IN /\ returned => /\ s \in SeqToSet(availableTimesForDate'[c])
                             /\ s \notin SeqToSet(bookedTimesForDate'[c])
              /\ ~ returned => /\ s \in SeqToSet(bookedTimesForDate'[c])
                               /\ s \notin SeqToSet(availableTimesForDate'[c])]_vars

\* a run has ended with exactly the first and the last slot booked
C6_Witness ==
  \E c \in Clients :
    /\ isOpen[c] /\ ~ isCheckingAvailability[c] /\ batches[c] = <<>>
    /\ bookedTimesForDate[c] = <<"08:00", "16:00">>
    /\ Len(availableTimesForDate[c]) = 7

\* C7 as claimed: a slot whose check failed while the others succeeded is in
\* the available list and not in the booked list
C7_FailOpen ==
  [][\A c \in Clients, i \in 1..MaxBatches, failed \in SUBSET FailSlots :
       (BatchReturns(c, i, failed) /\ batches[c][i].live) =>
         \A s \in failed : /\ s \in SeqToSet(availableTimesForDate'[c])
                           /\ s \notin SeqToSet(bookedTimesForDate'[c])]_vars

\* C7 as amended: a slot whose check failed while the others succeeded is in
\* the booked list and not in the available list
C7_FailClosed ==
  [][\A c \in Clients, i \in 1..MaxBatches, failed \in SUBSET FailSlots :
       (BatchReturns(c, i, failed) /\ batches[c][i].live) =>
         \A s \in failed : /\ s \in SeqToSet(bookedTimesForDate'[c])
                           /\ s \notin SeqToSet(availableTimesForDate'[c])]_vars

\* no appointment exists, yet a slot is shown as booked: its check failed
C7_Witness ==
  \E c \in Clients :
    /\ appts = {} /\ isOpen[c] /\ ~ isCheckingAvailability[c]
    /\ \E s \in FailSlots : bookedTimesForDate[c] = <<s>>
    /\ Len(availableTimesForDate[c]) = 8

\* C9: a run that ends with the answers the displayed lists were built from
\* (every slot answered as the displayed lists classify it) leaves both lists
\* exactly as they were
C9_Idempotent ==
  [][\A c \in Clients, i \in 1..MaxBatches, failed \in SUBSET FailSlots :
       (/\ BatchReturns(c, i, failed)
        /\ batches[c][i].live
        /\ \A s \in Slots :
             LET answer == checkSlotAvailable(
                             BackendResponses(c, batches[c][i].date, Slots, failed)[s])
             IN /\ answer <=> s \in SeqToSet(availableTimesForDate[c])
                /\ ~ answer <=> s \in SeqToSet(bookedTimesForDate[c])) =>
         /\ availableTimesForDate'[c] = availableTimesForDate[c]
         /\ bookedTimesForDate'[c] = bookedTimesForDate[c]]_vars

\* with no appointment ever written, a first run showed every slot available, a
\* submit ended in a conflict (its check failed) and the refreshing second run
\* has ended with the same lists
C9_Witness ==
  \E c \in Clients :
    /\ appts = {} /\ lastAlert[c] = "conflict"
    /\ isOpen[c] /\ currentStep[c] = "time" /\ selectedTime[c] # NoTime
    /\ batches[c] = <<>> /\ ~ isCheckingAvailability[c]
    /\ availableTimesForDate[c] = BUSINESS_HOURS /\ bookedTimesForDate[c] = <<>>

C14_MissingIdentity ==
  [][\A c \in Clients :
       (HandleSubmit(c) /\ ~ userId[c]) =>
         /\ page'[c] = "login"
         /\ lastAlert'[c] = lastAlert[c]
         /\ submits'[c] = <<>>
         /\ isSubmitting'[c] = FALSE
         /\ loading'[c] = loading[c]
         /\ appts' = appts]_vars

\* the sign-in page was reached from the booking form
C14_Witness ==
  \E c \in Clients :
    /\ page[c] = "login" /\ ~ userId[c] /\ userRole[c] = "none"
    /\ lastAlert[c] = "none" /\ ~ isSubmitting[c] /\ submits[c] = <<>>
    /\ ~ loading[c] /\ appts = {}

\* C12: cancelling an appointment whose instant is less than 2 hours after the
\* current time is rejected with the lead-time message: no status-update request
\* is sent, and neither the appointment's status nor any other store state
\* (nor the backend) changes.
C12_LeadTimeRejects ==
  [][\A c \in Clients, k \in 1..MaxAppointments, confirmed \in BOOLEAN :
       (HandleCancelAppointment(c, k, confirmed)
          /\ appointments[c][k].dateTime - now < 2) =>
         /\ lastAlert'[c] = "leadTime"
         /\ listOps' = listOps
         /\ appointments' = appointments
         /\ loading' = loading
         /\ error' = error
         /\ appts' = appts
         /\ cancelTracked' = cancelTracked]_vars

\* a listed, still confirmed appointment less than 2 hours away whose
\* cancellation has just been refused, with nothing in flight
C12_Witness ==
  \E c \in Clients :
    /\ page[c] = "appointments"
    /\ lastAlert[c] = "leadTime"
    /\ listOps[c] = <<>>
    /\ ~ loading[c]
    /\ cancelTracked[c] = {}
    /\ \E k \in 1..Len(appointments[c]) :
         /\ appointments[c][k].status = "confirmed"
         /\ appointments[c][k].dateTime - now < 2
         /\ appointments[c][k].dateTime - now >= 0
         /\ appointments[c][k] \in appts

\* C13: a confirmed cancellation of a non-cancelled appointment 2 hours or more
\* away goes through in every store state, a refresh in flight included: the
\* status update is requested, and when it succeeds the appointment's status in
\* the local store is cancelled.
C13_CancelGoesThrough ==
  [][\A c \in Clients :
       /\ \A k \in 1..MaxAppointments :
            (HandleCancelAppointment(c, k, TRUE)
               /\ appointments[c][k].dateTime - now >= 2) =>
              \E i \in 1..Len(listOps'[c]) :
                listOps'[c][i] =
                  [op |-> "update", id |-> appointments[c][k].id, live |-> TRUE]
       /\ \A i \in 1..Len(listOps[c]) :
            UpdateReturns(c, i, TRUE) =>
              \A k \in 1..Len(appointments'[c]) :
                appointments'[c][k].id = listOps[c][i].id =>
                  appointments'[c][k].status = "cancelled"]_vars

\* C15: a navigation ends on the appointments view only with a userId stored,
\* on an admin view only with a userId stored and userRole 'admin', and is
\* otherwise redirected to /login (from where a stored identity is sent on to
\* its landing page); and whatever logins and logouts happened, userRole is
\* stored only if userId is.
C15_RouteGating ==
  /\ [][\A c \in Clients :
          /\ (page'[c] = "appointments" /\ page[c] # "appointments") => userId'[c]
          /\ (page'[c] \in AdminRoutes /\ page[c] # page'[c]) =>
               (userId'[c] /\ userRole'[c] = "admin")
          /\ \A route \in Routes :
               (/\ Navigate(c, route)
                /\ \/ route = "appointments" /\ ~ userId[c]
                   \/ route \in AdminRoutes /\ ~ (userId[c] /\ userRole[c] = "admin")) =>
                 page'[c] = (IF ~ userId[c] THEN "login"
                             ELSE IF userRole[c] = "admin" THEN "adminCalendar"
                             ELSE "doctors")]_vars
  /\ [](\A c \in Clients : userRole[c] # "none" => userId[c])

\* a signed-in admin on an admin view, and nothing left of the login
C15_Witness ==
  \E c \in Clients :
    /\ page[c] = "adminDoctors"
    /\ userId[c]
    /\ userRole[c] = "admin"
    /\ isLoggedIn[c]
    /\ loginTimers[c] = <<>>

\* C16: results of a run for a date that is no longer the selected one are
\* discarded: when such a run is the last one to complete, the lists keep what
\* the run for the selected date wrote, whatever the order of completion.
C16_StaleDiscarded ==
  [][\A c \in Clients, i \in 1..MaxOverlap, failed \in SUBSET FailSlots :
       (/\ BatchReturns(c, i, failed)
        /\ batches'[c] = <<>>
        /\ batches[c][i].live
        /\ batches[c][i].date # selectedDate[c]) =>
         /\ availableTimesForDate'[c] = availableTimesForDate[c]
         /\ bookedTimesForDate'[c] = bookedTimesForDate[c]]_vars

\* C17: the step of the booking modal follows calendar -> time -> form ->
\* submitting -> {success | conflict -> time | error -> form}: it starts at
\* calendar; within an open modal the time step is entered only from calendar by
\* selecting a non-past date that passes the day-level gate, by a conflict, or
\* by Back from form; the form step only from the time step with a selected
\* time; the success step only from the form step, by a submit whose create
\* request succeeded.
C17_StateMachine ==
  /\ \A c \in Clients : currentStep[c] = "calendar"
  /\ [][\A c \in Clients :
          (isOpen[c] /\ isOpen'[c] /\ currentStep'[c] # currentStep[c]) =>
            \/ currentStep'[c] = "calendar"
            \/ /\ currentStep'[c] = "time"
               /\ \/ /\ currentStep[c] = "calendar"
                     /\ \E date \in Dates : HandleDateSelect(c, date)
                     /\ ~ IsPast(selectedDate'[c])
                     /\ IsDayAvailable(Availabilities(c), selectedDate'[c])
                  \/ \E i \in 1..MaxSubmits, outcome \in NegativeOutcomes :
                       FinalCheckReturns(c, i, outcome)
                  \/ currentStep[c] = "form" /\ HandleBack(c)
            \/ /\ currentStep'[c] = "form"
               /\ currentStep[c] = "time"
               /\ selectedTime'[c] # NoTime
            \/ /\ currentStep'[c] = "success"
               /\ currentStep[c] = "form"
               /\ \E i \in 1..MaxSubmits : CreateReturns(c, i, TRUE)]_vars

\* what the conflict branch of handleSubmit does for a mounted instance: the
\* step is time, the selected date is kept, and a run of nine pending checks
\* for the submitted date is started with the checking indicator on
ConflictRefreshes(c, sub) ==
  /\ lastAlert'[c] = "conflict"
  /\ currentStep'[c] = "time"
  /\ selectedDate'[c] = selectedDate[c]
  /\ batches'[c] = Append(batches[c], [date |-> sub.date, results |-> PendingResults,
                                       live |-> TRUE])
  /\ isCheckingAvailability'[c]
  /\ appts' = appts

CreatesOutstanding(c) == {i \in 1..Len(submits[c]) : submits[c][i].pc = "create"}

C20_BatchBarrier ==
  /\ [](\A c \in Clients :
          \A i \in 1..Len(batches[c]) :
            (isOpen[c] /\ batches[c][i].live) =>
              /\ PendingSlots(batches[c][i]) # {}
              /\ isCheckingAvailability[c])
  /\ [][\A c \in Clients :
          (/\ isOpen'[c]
           /\ \/ availableTimesForDate'[c] # availableTimesForDate[c]
              \/ bookedTimesForDate'[c] # bookedTimesForDate[c]
              \/ isCheckingAvailability[c] /\ ~ isCheckingAvailability'[c]) =>
            /\ \E i \in 1..Len(batches[c]) :
                 batches[c][i].live /\ batches'[c] = RemoveAt(batches[c], i)
            /\ Len(availableTimesForDate'[c]) + Len(bookedTimesForDate'[c])
                 = Len(BUSINESS_HOURS)
            /\ SeqToSet(availableTimesForDate'[c]) \cap SeqToSet(bookedTimesForDate'[c]) = {}
            /\ ~ isCheckingAvailability'[c]]_vars

\* C21: closing the modal has no side effect, a close with a submit in flight
\* included: a submit whose modal was closed creates no appointment on the
\* backend and changes nothing in the appointment store.
C21_CloseNoSideEffect ==
  [][\A c \in Clients, i \in 1..MaxSubmits :
       (/\ i <= Len(submits[c])
        /\ ~ submits[c][i].live
        /\ \/ \E outcome \in Outcomes : FinalCheckReturns(c, i, outcome)
           \/ \E ok \in BOOLEAN : CreateReturns(c, i, ok)) =>
         /\ appts' = appts
         /\ appointments' = appointments
         /\ loading' = loading
         /\ error' = error]_vars

\* the doctor-store operations in flight that the guard is about: the list
\* fetch and the three writes
DoctorMutationsInFlight ==
  {i \in 1..Len(doctorOps) : doctorOps[i].op \in {"fetch", "update", "create", "delete"}}

\* C22: within one client no two mutating backend operations started by store
\* actions are in flight at the same time, in the appointment store (book,
\* status update, list fetch) and in the doctor store (create, update, delete,
\* fetch).
C22_OneMutationInFlight ==
  /\ \A c \in Clients : Cardinality(CreatesOutstanding(c)) + Len(listOps[c]) <= 1
  /\ Cardinality(DoctorMutationsInFlight) <= 1

\* C23: the instant of a (calendar date, slot label) pair is computed in the one
\* operating zone, America/Panama, whatever the browser's zone: every stored
\* request carries that instant, so two browsers that chose the same date and
\* label sent the same instant, and the day-level gate puts each slot instant
\* of the doctor on its America/Panama day in every browser.
C23_FixedZone ==
  /\ \A a \in appts : a.dateTime = createDateTimeString(RemoteClient, a.date, a.time)
  /\ \A a, b \in appts : (a.date = b.date /\ a.time = b.time) => a.dateTime = b.dateTime
  /\ \A c \in {RemoteClient, AbroadClient}, day \in Dates :
        SlotDay(c, createDateTimeString(RemoteClient, day, BUSINESS_HOURS[1])) = day

\* C24: checkSlotAvailable always resolves, to true only for a successful
\* response whose isAvailable is true and to false for every other outcome; a
\* final check that came to no answer therefore ends the submit as a conflict,
\* with no create request issued.
C24_CheckIsTotal ==
  /\ \A outcome \in {"true", "false"} \cup FailedResponses :
        /\ checkSlotAvailable(outcome) \in BOOLEAN
        /\ checkSlotAvailable(outcome) <=> outcome = "true"
  /\ [][\A c \in Clients, i \in 1..MaxSubmits, outcome \in FailedResponses :
          FinalCheckReturns(c, i, outcome) =>
            /\ lastAlert'[c] = "conflict"
            /\ Cardinality(CreatesOutstanding(c)') = Cardinality(CreatesOutstanding(c))
            /\ Len(submits'[c]) < Len(submits[c])
            /\ appts' = appts]_vars

\* a submit ended in the conflict alert although no appointment exists: its
\* final check failed
C24_Witness ==
  \E c \in Clients :
    /\ appts = {} /\ lastAlert[c] = "conflict"
    /\ submits[c] = <<>> /\ ~ isSubmitting[c] /\ ~ loading[c]

\* C25: an appointment-store action called while loading is true starts
\* nothing: bookNewAppointment and updateAppointmentDetails reject with
\* 'Operation in progress', the four others return at once, no request is
\* issued, and appointments, loading and error stay as they are.
C25_BusyGuard ==
  [][\A c \in Clients, action \in StoreActions, id \in 1..MaxAppointments,
        time \in UserSlots :
       (loading[c] /\ StoreCall(c, action, id, time)) =>
         /\ storeResult'[c] =
              (IF action \in {"bookNewAppointment", "updateAppointmentDetails"}
               THEN "Operation in progress" ELSE "resolved")
         /\ listOps' = listOps /\ appts' = appts
         /\ appointments' = appointments /\ loading' = loading /\ error' = error]_vars

\* a request is in flight, and an action called meanwhile was turned away
C25_Witness ==
  \E c \in Clients :
    /\ loading[c] /\ Len(listOps[c]) = 1
    /\ storeResult[c] = "Operation in progress"

\* C26: whenever the modal is at the form step, the selected time is in the
\* available list computed for the selected date.
C26_FormSlotListed ==
  \A c \in Clients :
    (isOpen[c] /\ currentStep[c] = "form") =>
      selectedTime[c] \in SeqToSet(availableTimesForDate[c])

\* C27: provided every network call is answered, each busy flag that is set is
\* released: isSubmitting after a submit, isCheckingAvailability after a
\* resolver run, the store's loading after a store action, whether the
\* request succeeded or failed.
C27_FlagsReleased ==
  \A c \in Clients :
    /\ isSubmitting[c] ~> ~ isSubmitting[c]
    /\ isCheckingAvailability[c] ~> ~ isCheckingAvailability[c]
    /\ loading[c] ~> ~ loading[c]

\* a submit has succeeded, a later one was turned down, a request of the store
\* has failed, and nothing is pending and no flag is set
C27_Witness ==
  \E c \in Clients :
    /\ appts # {} /\ lastAlert[c] \in {"conflict", "error"}
    /\ error[c] = "Failed to fetch all appointments"
    /\ submits[c] = <<>> /\ batches[c] = <<>> /\ listOps[c] = <<>>
    /\ ~ isSubmitting[c] /\ ~ isCheckingAvailability[c] /\ ~ loading[c]

\* the steps in which an action of the doctor store completes
DoctorActionCompletes ==
  \/ \E i \in 1..MaxDoctorOps, ok \in BOOLEAN :
       \/ FetchDoctorsReturns(i, ok)
       \/ UpdateDoctorReturns(i, ok)
       \/ CreateDoctorReturns(i, ok)
       \/ DeleteDoctorReturns(i, ok)
  \/ \E i \in 1..MaxDoctorOps, failed \in SUBSET DoctorIds : AvailabilitiesReturn(i, failed)
  \/ \E specialties \in SUBSET Specialties : FilterBySpecialty(specialties)
  \/ \E availability \in AvailabilityFilters : FilterByAvailability(availability)
  \/ ResetFilters
  \/ \E id \in DoctorIds, slots \in AvailabilityLists : SetDoctorAvailability(id, slots)

\* C28: when an action of the doctor store has completed, filteredDoctors is
\* the doctors list filtered by the selected specialties and the selected
\* availability.
C28_FilterConsistency ==
  [][DoctorActionCompletes =>
       doctorStore'.filteredDoctors = ApplyFilters(doctorStore', now')]_vars

\* C29: when fetchDoctorAvailabilities(ids) completes, each requested id maps
\* to the list fetched for it (the empty list if its request failed), and the
\* entries cached for the other doctors are as they were.
C29_OnlyRequestedEntries ==
  [][\A i \in 1..MaxDoctorOps, failed \in SUBSET DoctorIds :
       AvailabilitiesReturn(i, failed) =>
         LET before == doctorStore.doctorsWithAvailability
             after == doctorStore'.doctorsWithAvailability
         IN /\ \A id \in doctorOps[i].ids :
                 /\ id \in DOMAIN after
                 /\ after[id] = (IF id \in failed THEN {} ELSE BackendAvailabilityOf(id))
            /\ \A id \in (DOMAIN before) \ doctorOps[i].ids :
                 id \in DOMAIN after /\ after[id] = before[id]]_vars

====
